---- MODULE Spec2Model ----
(***************************************************************************)
(* Webhook dispatcher of the Gemini GitHub integration.                    *)
(*                                                                         *)
(* cloud_function.py receives a webhook, builds a GitHubEvent, dispatches  *)
(* it to one of four policies (pull request, issue, push, release) and     *)
(* maps the boolean outcome to an HTTP response.  gemini_github_bot.py     *)
(* holds the two policies of the bot and the wrappers around the two       *)
(* external collaborators (the generative model and the source host).      *)
(*                                                                         *)
(* Python dictionaries are functions whose DOMAIN is the set of keys that  *)
(* are present, so d[k] on an absent key is a KeyError and d.get(k, v) is  *)
(* Get(d, k, v).  Texts (diffs, prompts, comments, paths) are sequences of *)
(* string atoms: an f-string is the concatenation of its literal atoms and *)
(* of the values it embeds, and paths are spelled character by character   *)
(* so that str.endswith is computed rather than assumed.                   *)
(***************************************************************************)
EXTENDS Integers, Sequences, FiniteSets, TLC

(***************************************************************************)
(* Bounds of the model.                                                    *)
(***************************************************************************)
\* longest commit list of a push payload
MaxCommits == 2
\* longest directory listing the source host returns for a repository
MaxEntries == 8

(***************************************************************************)
(* Python values.                                                          *)
(***************************************************************************)
\* the value None (JSON null), kept apart from every string of a payload
None == "<None>"

EmptyDict == <<>>

\* dict.get(key, default)
Get(d, k, default) == IF k \in DOMAIN d THEN d[k] ELSE default

\* truthiness of a string or None, as used by `x or ""` and `not x`
Truthy(v) == v # None /\ v # ""

\* `v or ""`
OrEmpty(v) == IF Truthy(v) THEN v ELSE ""

\* how an f-string renders a string or None
Fmt(v) == IF v = None THEN "None" ELSE v

Digit(d) ==
  CASE d = 0 -> "0" [] d = 1 -> "1" [] d = 2 -> "2" [] d = 3 -> "3"
    [] d = 4 -> "4" [] d = 5 -> "5" [] d = 6 -> "6" [] d = 7 -> "7"
    [] d = 8 -> "8" [] d = 9 -> "9"

RECURSIVE Str(_)
\* how an f-string renders a non-negative integer
Str(n) == IF n < 10 THEN Digit(n) ELSE Str(n \div 10) \o Digit(n % 10)

\* str.endswith(suffix) on character sequences
EndsWith(s, suffix) ==
  /\ Len(s) >= Len(suffix)
  /\ SubSeq(s, Len(s) - Len(suffix) + 1, Len(s)) = suffix

\* `needle in haystack` on texts
Contains(haystack, needle) ==
  \E i \in 1..(Len(haystack) - Len(needle) + 1) :
    SubSeq(haystack, i, i + Len(needle) - 1) = needle

\* seq[:n]
Take(seq, n) == SubSeq(seq, 1, IF Len(seq) < n THEN Len(seq) ELSE n)

(***************************************************************************)
(* Webhook payloads.  Every optional part of a payload comes in its        *)
(* present and its absent shapes.                                          *)
(***************************************************************************)
Repositories == {"acme/widgets", "octo/tools"}

\* a JSON null where an object is expected
NoneDict == None :> TRUE

RepositoryParts ==
  {EmptyDict, "repository" :> EmptyDict, "repository" :> NoneDict}
    \cup {"repository" :> ("full_name" :> n) : n \in Repositories}

ActionParts(actions) == {EmptyDict} \cup {"action" :> a : a \in actions}

PullRequestParts ==
  {EmptyDict, "pull_request" :> EmptyDict, "pull_request" :> ("number" :> 42)}

PullRequestPayloads ==
  {a @@ rp @@ pr : a \in ActionParts({"opened", "synchronize", "closed"}),
                   rp \in RepositoryParts, pr \in PullRequestParts}

IssueParts ==
  {EmptyDict,
   "issue" :> ("title" :> "Crash" @@ "body" :> "It crashes"),
   "issue" :> ("number" :> 7 @@ "body" :> "It crashes"),
   "issue" :> ("number" :> 7 @@ "title" :> "Crash"),
   "issue" :> ("number" :> 7 @@ "title" :> "Crash" @@ "body" :> None),
   "issue" :> ("number" :> 7 @@ "title" :> "Crash" @@ "body" :> ""),
   "issue" :> ("number" :> 7 @@ "title" :> "Crash" @@ "body" :> "It crashes")}

IssuePayloads ==
  {a @@ rp @@ i : a \in ActionParts({"opened", "edited", "closed"}),
                  rp \in RepositoryParts, i \in IssueParts}

\* a JSON null where a list of paths is expected
NoneList == << <<None>> >>

ReadmeMd == <<"R", ".", "m", "d">>
NotesTxt == <<"n", ".", "t", "x", "t">>
IndexRst == <<"i", ".", "r", "s", "t">>
AppPy    == <<"a", ".", "p", "y">>
PageMdx  == <<"p", ".", "m", "d", "x">>
BareMd   == <<"m", "d">>

Commits ==
  {"modified" :> <<AppPy>>,
   "added" :> <<ReadmeMd>>,
   "modified" :> <<AppPy>> @@ "added" :> <<NotesTxt>>,
   "modified" :> <<PageMdx, BareMd>> @@ "added" :> <<>>,
   "modified" :> <<IndexRst>>,
   "modified" :> NoneList}

RECURSIVE SeqsUpTo(_, _)
\* the sequences over S of length at most n
SeqsUpTo(S, n) ==
  IF n = 0 THEN {<<>>}
  ELSE LET shorter == SeqsUpTo(S, n - 1)
       IN  shorter \cup {Append(q, x) : q \in shorter, x \in S}

CommitsParts ==
  {EmptyDict} \cup {"commits" :> cs : cs \in SeqsUpTo(Commits, MaxCommits)}

RefParts ==
  {EmptyDict, "ref" :> "refs/heads/main", "ref" :> "refs/heads/dev"}

PushPayloads ==
  {rf @@ rp @@ cs : rf \in RefParts,
                    rp \in {EmptyDict, "repository" :> ("full_name" :> "acme/widgets")},
                    cs \in CommitsParts}

ReleaseParts ==
  {EmptyDict, "release" :> EmptyDict, "release" :> ("tag_name" :> "v1.2.0")}

ReleasePayloads ==
  {a @@ rp @@ rl : a \in ActionParts({"published", "created"}),
                   rp \in RepositoryParts, rl \in ReleaseParts}

OtherPayloads ==
  {a @@ rp @@ ("zen" :> "Keep it simple") :
     a \in ActionParts({"opened", "published", "created"}),
     rp \in RepositoryParts}

\* a webhook request: the X-GitHub-Event header (None when the header is
\* missing) and the decoded JSON body
Requests ==
  {[header |-> "pull_request", payload |-> p] : p \in PullRequestPayloads}
    \cup {[header |-> "issues", payload |-> p] : p \in IssuePayloads}
    \cup {[header |-> "push", payload |-> p] : p \in PushPayloads}
    \cup {[header |-> "release", payload |-> p] : p \in ReleasePayloads}
    \cup {[header |-> h, payload |-> p] :
            h \in {"ping", "issue_comment", "", None}, p \in OtherPayloads}

(***************************************************************************)
(* What the two external services may answer.                              *)
(***************************************************************************)
\* an answer of the generative model or of the diff endpoint: either the
\* call raises (text is then str(e)) or it returns text
GeneratedTexts == {<<"Looks fine.">>, <<>>}

GenerationOutcomes ==
  {[raises |-> TRUE, text |-> <<"503 model overloaded">>]}
    \cup {[raises |-> FALSE, text |-> t] : t \in GeneratedTexts}

DiffOutcomes ==
  {[raises |-> TRUE, text |-> <<"404 Not Found">>],
   [raises |-> FALSE, text |-> <<>>],
   [raises |-> FALSE, text |-> <<"+ print('hi')">>]}

\* the root directory of a repository as the source host lists it
ContentFile(type, name) ==
  [type |-> type, name |-> name, path |-> name,
   content |-> <<"# code of ">> \o name, size |-> Len(name)]

Listing ==
  << ContentFile("dir",  <<"s", "r", "c">>),
     ContentFile("file", ReadmeMd),
     ContentFile("file", AppPy),
     ContentFile("file", <<"b", ".", "j", "s">>),
     ContentFile("file", <<"c", ".", "j", "a", "v", "a">>),
     ContentFile("file", <<"d", ".", "g", "o">>),
     ContentFile("file", <<"e", ".", "p", "y">>),
     ContentFile("file", <<"g", ".", "g", "o">>),
     ContentFile("file", <<"f", ".", "t", "s">>),
     ContentFile("file", <<"h", ".", "p", "y">>) >>

\* an answer of the contents endpoint: it raises, or it lists the first
\* `count` entries of Listing
ContentsOutcomes ==
  {[raises |-> TRUE, contents |-> <<>>]}
    \cup {[raises |-> FALSE, contents |-> Take(Listing, k)] : k \in 0..MaxEntries}

(***************************************************************************)
(* GeminiClient                                                            *)
(***************************************************************************)
analyze_code_changes_prompt(diff_content, file_path) ==
  <<"You are an expert code reviewer. Analyze the following code diff", "File: ">>
    \o file_path \o <<"Diff:">> \o diff_content
    \o <<"Provide your analysis in markdown format with clear sections.">>

\* the text analyze_code_changes returns when the model answers `outcome`
analyze_code_changes(outcome) ==
  IF outcome.raises
  THEN <<"Error during analysis: ">> \o outcome.text
  ELSE outcome.text

generate_documentation_prompt(code_content, file_path) ==
  <<"Generate comprehensive documentation for the following code:", "File: ">>
    \o file_path \o <<"Code:">> \o code_content
    \o <<"Format as markdown documentation.">>

\* the text generate_documentation returns when the model answers `outcome`
generate_documentation(outcome) ==
  IF outcome.raises
  THEN <<"Error generating documentation: ">> \o outcome.text
  ELSE outcome.text

\* the response object GenerativeModel.generate_content returns when the
\* model answers `outcome` without raising.  generate_content is a plain
\* method (analyze_code_changes reads response.text from its result without
\* awaiting it), so the object is not awaitable.
generate_content(outcome) == [text |-> outcome.text, awaitable |-> FALSE]

\* `await value`: a TypeError unless the value is awaitable
AwaitRaises(value) == ~value.awaitable

(***************************************************************************)
(* GitHubIntegration                                                       *)
(***************************************************************************)
\* get_pull_request_diff reporting a failed fetch as text, the way
\* analyze_code_changes reports a failed generation
get_pull_request_diff_ErrorText(outcome) ==
  IF outcome.raises THEN <<"Error getting PR diff: ">> \o outcome.text ELSE outcome.text

\* the text get_pull_request_diff returns when the host answers `outcome`
get_pull_request_diff(outcome) ==
  IF outcome.raises THEN <<>> ELSE outcome.text

\* the boolean post_review_comment returns when create_review raises or not
post_review_comment(raises) == ~raises

\* the boolean create_issue_comment returns when create_comment raises or not
create_issue_comment(raises) == ~raises

RECURSIVE SelectFiles(_, _)
\* the loop of get_repository_files over the listed entries
SelectFiles(contents, file_extensions) ==
  IF contents = <<>> THEN <<>>
  ELSE LET content_file == Head(contents)
           keep == /\ content_file.type = "file"
                   /\ \/ file_extensions = <<>>
                      \/ \E i \in DOMAIN file_extensions :
                           EndsWith(content_file.name, file_extensions[i])
       IN  (IF keep
            THEN <<[path |-> content_file.path, content |-> content_file.content,
                    size |-> content_file.size]>>
            ELSE <<>>)
           \o SelectFiles(Tail(contents), file_extensions)

\* the list get_repository_files returns when the host answers `outcome`
get_repository_files(outcome, file_extensions) ==
  IF outcome.raises THEN <<>> ELSE SelectFiles(outcome.contents, file_extensions)

(***************************************************************************)
(* State.                                                                  *)
(***************************************************************************)
\* the webhook deliveries
Req == {1, 2}

VARIABLES
  pc,        \* pc[r]: where delivery r stands in its handler
  request,   \* request[r]: the header and body of delivery r
  event,     \* event[r]: the GitHubEvent built from delivery r
  frame,     \* frame[r]: the local variables of the policy handling r
  calls,     \* the collaborator calls made so far, in order
  caught,    \* caught[r]: the exception process_github_event caught, or ""
  outcome,   \* outcome[r]: how process_github_event ended for r
  response   \* response[r]: the HTTP response to delivery r

vars == <<pc, request, event, frame, calls, caught, outcome, response>>

NoRequest == [header |-> None, payload |-> EmptyDict]

NoEvent == [event_type |-> "", repository |-> "", action |-> "", data |-> EmptyDict]

NoFrame ==
  [repo_name |-> "", number |-> 0, diff_content |-> <<>>, comment |-> <<>>,
   prompt |-> <<>>, files |-> <<>>, idx |-> 0]

NoOutcome == [kind |-> "none", value |-> FALSE, exc |-> ""]

NoResponse == [code |-> 0, body |-> EmptyDict]

\* one collaborator call: who made it, the operation, its arguments, whether
\* it reported success, and the text it returned
Call(r, op, repo, number, text, exts, ok, out) ==
  [req |-> r, op |-> op, repo |-> repo, number |-> number, text |-> text,
   exts |-> exts, ok |-> ok, out |-> out]

(***************************************************************************)
(* How a stretch of policy code ends: it returns a boolean, it raises, or  *)
(* it reaches its next collaborator call.                                  *)
(***************************************************************************)
Return(v) == [kind |-> "return", value |-> v, exc |-> "", next |-> "", frame |-> NoFrame]

Raise(e) == [kind |-> "raise", value |-> FALSE, exc |-> e, next |-> "", frame |-> NoFrame]

Goto(l, f) == [kind |-> "goto", value |-> FALSE, exc |-> "", next |-> l, frame |-> f]

(***************************************************************************)
(* GeminiGitHubBot.handle_pull_request                                     *)
(***************************************************************************)
\* the policy without its filter on the action
handle_pull_request_AnyAction(ev) ==
  IF "repository" \notin DOMAIN ev.data THEN Raise("KeyError: 'repository'")
  ELSE IF "full_name" \notin DOMAIN ev.data["repository"] THEN Raise("KeyError: 'full_name'")
  ELSE IF "pull_request" \notin DOMAIN ev.data THEN Raise("KeyError: 'pull_request'")
  ELSE IF "number" \notin DOMAIN ev.data["pull_request"] THEN Raise("KeyError: 'number'")
  ELSE Goto("pr_diff",
            [NoFrame EXCEPT !.repo_name = ev.data["repository"]["full_name"],
                            !.number = ev.data["pull_request"]["number"]])

\* from the entry of the policy to its first collaborator call
handle_pull_request(ev) ==
  IF ev.action \notin {"opened", "synchronize"} THEN Return(TRUE)
  ELSE IF "repository" \notin DOMAIN ev.data THEN Raise("KeyError: 'repository'")
  ELSE IF "full_name" \notin DOMAIN ev.data["repository"] THEN Raise("KeyError: 'full_name'")
  ELSE IF "pull_request" \notin DOMAIN ev.data THEN Raise("KeyError: 'pull_request'")
  ELSE IF "number" \notin DOMAIN ev.data["pull_request"] THEN Raise("KeyError: 'number'")
  ELSE Goto("pr_diff",
            [NoFrame EXCEPT !.repo_name = ev.data["repository"]["full_name"],
                            !.number = ev.data["pull_request"]["number"]])

\* the file label handed to analyze_code_changes
ReviewLabel(pr_number) == <<"PR #" \o Str(pr_number)>>

\* a review body that leaves the analysis out
ReviewComment_Bare(analysis) ==
  <<"## AI Code Review by Gemini", "---",
    "*This review was automatically generated by Gemini AI. Please verify all suggestions before implementing.*">>

\* the review body wrapped around the analysis
ReviewComment(analysis) ==
  <<"## AI Code Review by Gemini">> \o analysis
    \o <<"---", "*This review was automatically generated by Gemini AI. Please verify all suggestions before implementing.*">>

(***************************************************************************)
(* GeminiGitHubBot.handle_issue                                            *)
(***************************************************************************)
IssuePrompt(issue_title, issue_body) ==
  <<"Analyze this GitHub issue and provide helpful suggestions:",
    "Title: ", Fmt(issue_title), "Description: ", Fmt(issue_body),
    "Be helpful and constructive.">>

\* the value bound to issue_body
IssueBody(issue) == OrEmpty(issue["body"])

\* the policy acting on edited issues as well (config.py lists the action)
handle_issue_Edited(ev) ==
  IF ev.action \notin {"opened", "edited"} THEN Return(TRUE)
  ELSE IF "repository" \notin DOMAIN ev.data THEN Raise("KeyError: 'repository'")
  ELSE IF "full_name" \notin DOMAIN ev.data["repository"] THEN Raise("KeyError: 'full_name'")
  ELSE IF "issue" \notin DOMAIN ev.data THEN Raise("KeyError: 'issue'")
  ELSE IF "number" \notin DOMAIN ev.data["issue"] THEN Raise("KeyError: 'number'")
  ELSE IF "title" \notin DOMAIN ev.data["issue"] THEN Raise("KeyError: 'title'")
  ELSE IF "body" \notin DOMAIN ev.data["issue"] THEN Raise("KeyError: 'body'")
  ELSE Goto("issue_generate",
            [NoFrame EXCEPT !.repo_name = ev.data["repository"]["full_name"],
                            !.number = ev.data["issue"]["number"],
                            !.prompt = IssuePrompt(ev.data["issue"]["title"],
                                                   OrEmpty(ev.data["issue"]["body"]))])

\* from the entry of the policy to its generation call
handle_issue(ev) ==
  IF ev.action # "opened" THEN Return(TRUE)
  ELSE IF "repository" \notin DOMAIN ev.data THEN Raise("KeyError: 'repository'")
  ELSE IF "full_name" \notin DOMAIN ev.data["repository"] THEN Raise("KeyError: 'full_name'")
  ELSE IF "issue" \notin DOMAIN ev.data THEN Raise("KeyError: 'issue'")
  ELSE IF "number" \notin DOMAIN ev.data["issue"] THEN Raise("KeyError: 'number'")
  ELSE IF "title" \notin DOMAIN ev.data["issue"] THEN Raise("KeyError: 'title'")
  ELSE IF "body" \notin DOMAIN ev.data["issue"] THEN Raise("KeyError: 'body'")
  ELSE Goto("issue_generate",
            [NoFrame EXCEPT !.repo_name = ev.data["repository"]["full_name"],
                            !.number = ev.data["issue"]["number"],
                            !.prompt = IssuePrompt(ev.data["issue"]["title"],
                                                   IssueBody(ev.data["issue"]))])

\* the comment body wrapped around the model's answer
IssueComment(text) ==
  <<"## AI Issue Analysis">> \o text
    \o <<"---", "*This analysis was automatically generated by Gemini AI.*">>

(***************************************************************************)
(* handle_push_event                                                       *)
(***************************************************************************)
DocSuffixes == << <<".", "m", "d">>, <<".", "r", "s", "t">>, <<".", "t", "x", "t">> >>

SourceExtensions ==
  << <<".", "p", "y">>, <<".", "j", "s">>, <<".", "j", "a", "v", "a">>, <<".", "g", "o">> >>

\* the cap on the files documented for one push
MaxDocFiles == 5

\* the loop running over every file instead of files[:5]
Batch_NoCap(files) == files

\* files[:5]
Batch(files) == Take(files, MaxDocFiles)

\* the suffix test with the dots of the suffixes forgotten
IsDocFile_NoDot(f) == \E i \in DOMAIN DocSuffixes : EndsWith(f, Tail(DocSuffixes[i]))

\* f.endswith(('.md', '.rst', '.txt'))
IsDocFile(f) == \E i \in DOMAIN DocSuffixes : EndsWith(f, DocSuffixes[i])

RECURSIVE ScanCommits(_)
\* the loop over the commits: "doc" when it breaks on a commit touching a
\* documentation file, "none" when it runs out of commits, "raise" when a
\* commit's modified or added list is null
ScanCommits(commits) ==
  IF commits = <<>> THEN "none"
  ELSE LET commit == Head(commits)
           modified == Get(commit, "modified", <<>>)
           added == Get(commit, "added", <<>>)
           modified_files == modified \o added
       IN  IF modified = NoneList \/ added = NoneList THEN "raise"
           ELSE IF \E i \in DOMAIN modified_files : IsDocFile(modified_files[i]) THEN "doc"
           ELSE ScanCommits(Tail(commits))

\* from the entry of the policy to the listing of the repository
handle_push_event(ev) ==
  IF Get(ev.data, "ref", None) # "refs/heads/main" THEN Return(TRUE)
  ELSE LET scan == ScanCommits(Get(ev.data, "commits", <<>>))
       IN  IF scan = "raise"
           THEN Raise("TypeError: unsupported operand type(s) for +")
           ELSE IF scan = "doc"
           THEN Goto("push_files", [NoFrame EXCEPT !.repo_name = ev.repository])
           ELSE Return(TRUE)

(***************************************************************************)
(* handle_release_event                                                    *)
(***************************************************************************)
\* a release prompt that does not name the version
ReleasePrompt_NoTag(tag_name) ==
  <<"Generate comprehensive release notes based on recent commits.",
    "Make it user-friendly and highlight important changes.">>

ReleasePrompt(tag_name) ==
  <<"Generate comprehensive release notes for version ", Fmt(tag_name),
    " based on recent commits.", "Make it user-friendly and highlight important changes.">>

\* from the entry of the policy to its generation call
handle_release_event(ev) ==
  IF ev.action # "published" THEN Return(TRUE)
  ELSE LET release == Get(ev.data, "release", EmptyDict)
           tag_name == Get(release, "tag_name", "")
       IN  Goto("release_generate",
                [NoFrame EXCEPT !.repo_name = ev.repository,
                                !.prompt = ReleasePrompt(tag_name)])

(***************************************************************************)
(* process_github_event and github_webhook_handler                         *)
(***************************************************************************)
\* a dispatcher that reports an event type it has no policy for as a failure
SelectPolicy_RejectUnknown(ev) ==
  IF ev.event_type = "pull_request" THEN handle_pull_request(ev)
  ELSE IF ev.event_type = "issues" THEN handle_issue(ev)
  ELSE IF ev.event_type = "push" THEN handle_push_event(ev)
  ELSE IF ev.event_type = "release" THEN handle_release_event(ev)
  ELSE Return(FALSE)

\* the branch of the dispatcher taken for an event
SelectPolicy(ev) ==
  IF ev.event_type = "pull_request" THEN handle_pull_request(ev)
  ELSE IF ev.event_type = "issues" THEN handle_issue(ev)
  ELSE IF ev.event_type = "push" THEN handle_push_event(ev)
  ELSE IF ev.event_type = "release" THEN handle_release_event(ev)
  ELSE Return(TRUE)

\* process_github_event without its except clause
DispatcherExcept_Uncaught(step) == step

\* the except clause of process_github_event: an exception leaving a policy
\* becomes the return value False
DispatcherExcept(step) ==
  IF step.kind = "raise" THEN [step EXCEPT !.kind = "return", !.value = FALSE]
  ELSE step

\* building the GitHubEvent raises: payload.get("repository", {}) is None
\* when the payload spells the repository as null, and None has no get
MakeEventRaises(req) == Get(req.payload, "repository", EmptyDict) = NoneDict

\* verify_github_signature: the stub accepts every request
verify_github_signature(req) == TRUE

\* the GitHubEvent github_webhook_handler builds from a request
MakeEvent(req) ==
  [event_type |-> req.header,
   repository |-> Get(Get(req.payload, "repository", EmptyDict), "full_name", ""),
   action |-> Get(req.payload, "action", ""),
   data |-> req.payload]

\* a response whose status does not look at the result
Respond_AlwaysSuccess(ev, step) ==
  IF step.kind = "raise"
  THEN [code |-> 500, body |-> "error" :> step.exc]
  ELSE [code |-> 200,
        body |-> "status" :> "success"
                 @@ "event_type" :> ev.event_type
                 @@ "repository" :> ev.repository
                 @@ "processed" :> step.value]

\* the response github_webhook_handler gives once process_github_event ended
\* with `step`: the status body, or the 500 of its own except clause
Respond(ev, step) ==
  IF step.kind = "raise"
  THEN [code |-> 500, body |-> "error" :> step.exc]
  ELSE [code |-> 200,
        body |-> "status" :> (IF step.value THEN "success" ELSE "failed")
                 @@ "event_type" :> ev.event_type
                 @@ "repository" :> ev.repository
                 @@ "processed" :> step.value]

\* delivery r leaves a stretch of policy code with `step`: either it moves on
\* to its next collaborator call, or process_github_event ends and
\* github_webhook_handler answers
Finish(r, step) ==
  IF step.kind = "goto"
  THEN /\ pc' = [pc EXCEPT ![r] = step.next]
       /\ frame' = [frame EXCEPT ![r] = step.frame]
       /\ UNCHANGED <<caught, outcome, response>>
  ELSE LET ended == DispatcherExcept(step)
       IN  /\ pc' = [pc EXCEPT ![r] = "done"]
           /\ caught' = [caught EXCEPT ![r] = IF ended.kind = "return" THEN step.exc ELSE ""]
           /\ outcome' = [outcome EXCEPT ![r] =
                            [kind |-> ended.kind, value |-> ended.value,
                             exc |-> IF ended.kind = "raise" THEN ended.exc ELSE ""]]
           /\ response' = [response EXCEPT ![r] = Respond(event[r], ended)]
           /\ UNCHANGED frame

(***************************************************************************)
(* Actions.  A delivery advances from one collaborator call to the next;   *)
(* the answer of the collaborator is the input of the step.                *)
(***************************************************************************)
\* github_webhook_handler up to the call of process_github_event
github_webhook_handler(r) ==
  /\ pc[r] = "arrived"
  /\ LET req == request[r]
     IN  IF ~verify_github_signature(req)
         THEN /\ pc' = [pc EXCEPT ![r] = "done"]
              /\ response' = [response EXCEPT ![r] =
                                [code |-> 401, body |-> "error" :> "Invalid signature"]]
              /\ UNCHANGED event
         ELSE IF ~Truthy(req.header) \/ req.payload = EmptyDict
         THEN /\ pc' = [pc EXCEPT ![r] = "done"]
              /\ response' = [response EXCEPT ![r] =
                                [code |-> 400, body |-> "error" :> "Invalid webhook payload"]]
              /\ UNCHANGED event
         ELSE IF MakeEventRaises(req)
         THEN /\ pc' = [pc EXCEPT ![r] = "done"]
              /\ response' = [response EXCEPT ![r] =
                                [code |-> 500,
                                 body |-> "error" :> "'NoneType' object has no attribute 'get'"]]
              /\ UNCHANGED event
         ELSE /\ pc' = [pc EXCEPT ![r] = "dispatch"]
              /\ event' = [event EXCEPT ![r] = MakeEvent(req)]
              /\ UNCHANGED response
  /\ UNCHANGED <<request, frame, calls, caught, outcome>>

\* process_github_event: the dispatch and the selected policy up to its
\* first collaborator call
process_github_event(r) ==
  /\ pc[r] = "dispatch"
  /\ Finish(r, SelectPolicy(event[r]))
  /\ UNCHANGED <<request, event, calls>>

\* handle_pull_request: the diff is fetched
pr_get_diff(r) ==
  /\ pc[r] = "pr_diff"
  /\ \E o \in DiffOutcomes :
       LET diff_content == get_pull_request_diff(o)
       IN  /\ calls' = Append(calls,
                              Call(r, "get_pull_request_diff", frame[r].repo_name,
                                   frame[r].number, <<>>, <<>>, ~o.raises, diff_content))
           /\ IF diff_content = <<>>
              THEN Finish(r, Return(FALSE))
              ELSE Finish(r, Goto("pr_analyze", [frame[r] EXCEPT !.diff_content = diff_content]))
  /\ UNCHANGED <<request, event>>

\* handle_pull_request: the diff is analysed and the review body is built
pr_analyze(r) ==
  /\ pc[r] = "pr_analyze"
  /\ \E o \in GenerationOutcomes :
       LET analysis == analyze_code_changes(o)
       IN  /\ calls' = Append(calls,
                              Call(r, "analyze_code_changes", "", 0,
                                   analyze_code_changes_prompt(frame[r].diff_content,
                                                               ReviewLabel(frame[r].number)),
                                   <<>>, ~o.raises, analysis))
           /\ Finish(r, Goto("pr_post", [frame[r] EXCEPT !.comment = ReviewComment(analysis)]))
  /\ UNCHANGED <<request, event>>

\* the review posted to the pull request the shared bot fetched last, as if
\* the bot kept the pull request at hand in an attribute of its own
pr_post_review_SharedTarget(r) ==
  /\ pc[r] = "pr_post"
  /\ \E raises \in BOOLEAN :
       LET posted == post_review_comment(raises)
           fetched(c) == c.op = "get_pull_request_diff"
           fetches == SelectSeq(calls, fetched)
           current == fetches[Len(fetches)]
       IN  /\ calls' = Append(calls,
                              Call(r, "post_review_comment", current.repo,
                                   current.number, frame[r].comment, <<>>, posted, <<>>))
           /\ Finish(r, Return(posted))
  /\ UNCHANGED <<request, event>>

\* handle_pull_request: the review is posted and its outcome returned
pr_post_review(r) ==
  /\ pc[r] = "pr_post"
  /\ \E raises \in BOOLEAN :
       LET posted == post_review_comment(raises)
       IN  /\ calls' = Append(calls,
                              Call(r, "post_review_comment", frame[r].repo_name,
                                   frame[r].number, frame[r].comment, <<>>, posted, <<>>))
           /\ Finish(r, Return(posted))
  /\ UNCHANGED <<request, event>>

\* handle_issue: the try block, from the generation call to the return
issue_generate(r) ==
  /\ pc[r] = "issue_generate"
  /\ \E o \in GenerationOutcomes :
       LET generated == Call(r, "generate_content", "", 0, frame[r].prompt, <<>>,
                             ~o.raises, IF o.raises THEN <<>> ELSE o.text)
       IN  IF o.raises \/ AwaitRaises(generate_content(o))
           THEN /\ calls' = Append(calls, generated)
                /\ Finish(r, Return(FALSE))
           ELSE \E raises \in BOOLEAN :
                  LET comment == IssueComment(generate_content(o).text)
                      posted == create_issue_comment(raises)
                  IN  /\ calls' = calls \o
                                  <<generated,
                                    Call(r, "create_issue_comment", frame[r].repo_name,
                                         frame[r].number, comment, <<>>, posted, <<>>)>>
                      /\ Finish(r, Return(posted))
  /\ UNCHANGED <<request, event>>

\* the listing step reporting a failed or empty listing as a failure
push_get_files_FailOnEmpty(r) ==
  /\ pc[r] = "push_files"
  /\ \E o \in ContentsOutcomes :
       LET files == get_repository_files(o, SourceExtensions)
       IN  /\ calls' = Append(calls,
                              Call(r, "get_repository_files", frame[r].repo_name, 0,
                                   <<>>, SourceExtensions, ~o.raises, <<>>))
           /\ IF Batch(files) = <<>>
              THEN Finish(r, Return(FALSE))
              ELSE Finish(r, Goto("push_generate", [frame[r] EXCEPT !.files = files, !.idx = 1]))
  /\ UNCHANGED <<request, event>>

\* handle_push_event: the repository is listed
push_get_files(r) ==
  /\ pc[r] = "push_files"
  /\ \E o \in ContentsOutcomes :
       LET files == get_repository_files(o, SourceExtensions)
       IN  /\ calls' = Append(calls,
                              Call(r, "get_repository_files", frame[r].repo_name, 0,
                                   <<>>, SourceExtensions, ~o.raises, <<>>))
           /\ IF Batch(files) = <<>>
              THEN Finish(r, Return(TRUE))
              ELSE Finish(r, Goto("push_generate", [frame[r] EXCEPT !.files = files, !.idx = 1]))
  /\ UNCHANGED <<request, event>>

\* the loop publishing what it generated as a comment (the place line 129
\* leaves open for a write-back)
push_generate_docs_Publish(r) ==
  /\ pc[r] = "push_generate"
  /\ \E o \in {g \in GenerationOutcomes : g.raises \/ g.text # <<>>} :
       LET batch == Batch(frame[r].files)
           file_info == batch[frame[r].idx]
           docs == generate_documentation(o)
       IN  /\ calls' = calls \o
                       <<Call(r, "generate_documentation", "", 0,
                              generate_documentation_prompt(file_info.content,
                                                            file_info.path),
                              <<>>, ~o.raises, docs),
                         Call(r, "create_issue_comment", frame[r].repo_name, 1, docs,
                              <<>>, TRUE, <<>>)>>
           /\ IF frame[r].idx = Len(batch)
              THEN Finish(r, Return(TRUE))
              ELSE Finish(r, Goto("push_generate", [frame[r] EXCEPT !.idx = @ + 1]))
  /\ UNCHANGED <<request, event>>

\* handle_push_event: one pass of the loop over files[:5]
push_generate_docs(r) ==
  /\ pc[r] = "push_generate"
  /\ \E o \in {g \in GenerationOutcomes : g.raises \/ g.text # <<>>} :
       LET batch == Batch(frame[r].files)
           file_info == batch[frame[r].idx]
           docs == generate_documentation(o)
       IN  /\ calls' = Append(calls,
                              Call(r, "generate_documentation", "", 0,
                                   generate_documentation_prompt(file_info.content,
                                                                 file_info.path),
                                   <<>>, ~o.raises, docs))
           /\ IF frame[r].idx = Len(batch)
              THEN Finish(r, Return(TRUE))
              ELSE Finish(r, Goto("push_generate", [frame[r] EXCEPT !.idx = @ + 1]))
  /\ UNCHANGED <<request, event>>

\* handle_release_event: the try block, from the generation call to the return
release_generate(r) ==
  /\ pc[r] = "release_generate"
  /\ \E o \in GenerationOutcomes :
       /\ calls' = Append(calls,
                          Call(r, "generate_content", "", 0, frame[r].prompt, <<>>,
                               ~o.raises, IF o.raises THEN <<>> ELSE o.text))
       /\ IF o.raises \/ AwaitRaises(generate_content(o))
          THEN Finish(r, Return(FALSE))
          ELSE Finish(r, Return(TRUE))
  /\ UNCHANGED <<request, event>>

(***************************************************************************)
(* Specification: one delivery is handled from its arrival to its response.*)
(***************************************************************************)
Init ==
  /\ pc = [r \in Req |-> IF r = 1 THEN "arrived" ELSE "absent"]
  /\ \E req \in Requests : request = [r \in Req |-> IF r = 1 THEN req ELSE NoRequest]
  /\ event = [r \in Req |-> NoEvent]
  /\ frame = [r \in Req |-> NoFrame]
  /\ calls = <<>>
  /\ caught = [r \in Req |-> ""]
  /\ outcome = [r \in Req |-> NoOutcome]
  /\ response = [r \in Req |-> NoResponse]

Next ==
  \E r \in Req :
    \/ github_webhook_handler(r)
    \/ process_github_event(r)
    \/ pr_get_diff(r)
    \/ pr_analyze(r)
    \/ pr_post_review(r)
    \/ issue_generate(r)
    \/ push_get_files(r)
    \/ push_generate_docs(r)
    \/ release_generate(r)

Spec == Init /\ [][Next]_vars

(***************************************************************************)
(* Specification: two deliveries for different repositories are handled    *)
(* at the same time by the one shared bot; their steps interleave at the   *)
(* collaborator calls.                                                     *)
(***************************************************************************)
RepositoryOf(r) == IF r = 1 THEN "acme/widgets" ELSE "octo/tools"

\* well-formed events for the repository of delivery r, one per policy, with
\* numbers and tags that tell the two deliveries apart; at most one of the
\* two deliveries is a push
ConcurrentRequests(r) ==
  LET rp == "repository" :> ("full_name" :> RepositoryOf(r))
  IN  {[header |-> "pull_request",
        payload |-> "action" :> "opened" @@ rp @@ "pull_request" :> ("number" :> 40 + r)],
       [header |-> "issues",
        payload |-> "action" :> "opened" @@ rp
                    @@ "issue" :> ("number" :> 6 + r @@ "title" :> "Crash "  \o Str(r)
                                   @@ "body" :> "It crashes")],
       [header |-> "push",
        payload |-> "ref" :> "refs/heads/main" @@ rp
                    @@ "commits" :> <<"added" :> <<ReadmeMd>>>>],
       [header |-> "release",
        payload |-> "action" :> "published" @@ rp
                    @@ "release" :> ("tag_name" :> "v" \o Str(r) \o ".0.0")]}

InitConcurrent ==
  /\ pc = [r \in Req |-> "arrived"]
  /\ request \in [Req -> UNION {ConcurrentRequests(r) : r \in Req}]
  /\ \A r \in Req : request[r] \in ConcurrentRequests(r)
  /\ \E r \in Req : request[r].header # "push"
  /\ event = [r \in Req |-> NoEvent]
  /\ frame = [r \in Req |-> NoFrame]
  /\ calls = <<>>
  /\ caught = [r \in Req |-> ""]
  /\ outcome = [r \in Req |-> NoOutcome]
  /\ response = [r \in Req |-> NoResponse]

SpecConcurrent == InitConcurrent /\ [][Next]_vars

TypeOK ==
  /\ \A r \in Req : pc[r] \in {"absent", "arrived", "dispatch", "pr_diff", "pr_analyze",
                               "pr_post", "issue_generate", "push_files",
                               "push_generate", "release_generate", "done"}
  /\ \A r \in Req : response[r].code \in {0, 200, 400, 401, 500}

(***************************************************************************)
(* Vocabulary of the properties.                                           *)
(***************************************************************************)
\* the collaborator calls made on behalf of delivery r, in order
CallsOf(r) == LET mine(c) == c.req = r IN SelectSeq(calls, mine)

\* the calls of delivery r to one operation, in order
CallsTo(r, op) == LET picked(c) == c.req = r /\ c.op = op IN SelectSeq(calls, picked)

\* the operations delivery r called, in order
OpsOf(r) == [i \in DOMAIN CallsOf(r) |-> CallsOf(r)[i].op]

\* delivery r reached process_github_event
Dispatched(r) ==
  /\ pc[r] \notin {"absent", "arrived"}
  /\ pc[r] = "done" => outcome[r].kind # "none"

\* delivery r went through process_github_event and was answered
Handled(r) == pc[r] = "done" /\ outcome[r].kind # "none"

\* process_github_event returned v for delivery r
Returned(r, v) == Handled(r) /\ outcome[r].kind = "return" /\ outcome[r].value = v

\* the payload of delivery r names its repository
HasRepository(r) == "full_name" \in DOMAIN Get(event[r].data, "repository", EmptyDict)

\* delivery r is a pull_request event the policy acts on
ReviewedPullRequest(r) ==
  event[r].event_type = "pull_request" /\ event[r].action \in {"opened", "synchronize"}

\* delivery r is an issues event the policy acts on
OpenedIssue(r) == event[r].event_type = "issues" /\ event[r].action = "opened"

\* delivery r is a push event
PushEvent(r) == event[r].event_type = "push"

\* the commits of a push payload, as the payload spells them
CommitsOf(r) == Get(event[r].data, "commits", <<>>)

\* a list of paths that is not null and holds a documentation file
ListsDocFile(paths) ==
  /\ paths # NoneList
  /\ \E j \in DOMAIN paths :
       \/ EndsWith(paths[j], <<".", "m", "d">>)
       \/ EndsWith(paths[j], <<".", "r", "s", "t">>)
       \/ EndsWith(paths[j], <<".", "t", "x", "t">>)

\* some commit of delivery r touches a documentation file
TouchesDocFile(r) ==
  \E i \in DOMAIN CommitsOf(r) :
    \/ ListsDocFile(Get(CommitsOf(r)[i], "modified", <<>>))
    \/ ListsDocFile(Get(CommitsOf(r)[i], "added", <<>>))

\* delivery r is a release event
ReleaseEvent(r) == event[r].event_type = "release"

\* the tag name the payload of delivery r spells, "" when it spells none
TagOf(r) == Get(Get(event[r].data, "release", EmptyDict), "tag_name", "")

\* delivery r is a push to the main branch
OnMain(r) == PushEvent(r) /\ Get(event[r].data, "ref", None) = "refs/heads/main"

(***************************************************************************)
(* Properties.                                                             *)
(***************************************************************************)
\* C1: whatever exception the selected policy raises, a missing payload
\* field included, process_github_event catches it and returns False; no
\* exception leaves process_github_event, so github_webhook_handler never
\* answers 500 on its account.
C1_ExceptionsBecomeFalse ==
  \A r \in Req :
    Handled(r) =>
      /\ outcome[r].kind = "return"
      /\ response[r].code = 200
      /\ caught[r] # "" => outcome[r].value = FALSE
      /\ SelectPolicy(event[r]).kind = "raise" =>
           /\ caught[r] = SelectPolicy(event[r]).exc
           /\ outcome[r].value = FALSE

\* a pull_request event without its pull_request object was answered "failed"
C1_Witness ==
  \E r \in Req :
    /\ Returned(r, FALSE)
    /\ caught[r] = "KeyError: 'pull_request'"
    /\ response[r].body["status"] = "failed"

ReviewOps == <<"get_pull_request_diff", "analyze_code_changes", "post_review_comment">>

\* C2: for an opened or synchronize pull request whose diff is non-empty and
\* whose generation returns text T, the policy calls get_pull_request_diff,
\* analyze_code_changes and post_review_comment once each, in that order;
\* the review goes to the repository and the number of the event, its body
\* contains T, and the result is the boolean post_review_comment returned.
C2_ReviewFlow ==
  \A r \in Req :
    LET cs == CallsOf(r)
    IN  ReviewedPullRequest(r) =>
          /\ OpsOf(r) = SubSeq(ReviewOps, 1, Len(cs))
          /\ ( /\ Handled(r)
               /\ \E i \in DOMAIN cs : cs[i].op = "get_pull_request_diff" /\ cs[i].out # <<>>
               /\ \E i \in DOMAIN cs : cs[i].op = "analyze_code_changes" /\ cs[i].ok )
             => /\ OpsOf(r) = ReviewOps
                /\ cs[3].repo = event[r].data["repository"]["full_name"]
                /\ cs[3].number = event[r].data["pull_request"]["number"]
                /\ Contains(cs[3].text, cs[2].out)
                /\ Returned(r, cs[3].ok)

\* a review carrying the generated text was posted and the event succeeded
C2_Witness ==
  \E r \in Req :
    /\ ReviewedPullRequest(r)
    /\ Returned(r, TRUE)
    /\ OpsOf(r) = ReviewOps
    /\ CallsOf(r)[2].ok
    /\ CallsOf(r)[2].out = <<"Looks fine.">>
    /\ Contains(CallsOf(r)[3].text, <<"Looks fine.">>)

\* C3: when the generation call fails for an opened or synchronize pull
\* request with a non-empty diff, post_review_comment is never invoked and
\* the result is failure.
C3_FailedAnalysisPostsNothing ==
  \A r \in Req :
    ( /\ ReviewedPullRequest(r)
      /\ \E i \in DOMAIN CallsOf(r) :
           CallsOf(r)[i].op = "analyze_code_changes" /\ ~CallsOf(r)[i].ok )
    => /\ CallsTo(r, "post_review_comment") = <<>>
       /\ Handled(r) => Returned(r, FALSE)

\* C4: when get_pull_request_diff returns empty text for an opened or
\* synchronize pull request, be it because the fetch failed, the policy and
\* the dispatcher return failure and neither analyze_code_changes nor
\* post_review_comment is invoked.
C4_EmptyDiffStops ==
  \A r \in Req :
    ( /\ ReviewedPullRequest(r)
      /\ \E i \in DOMAIN CallsOf(r) :
           /\ CallsOf(r)[i].op = "get_pull_request_diff"
           /\ CallsOf(r)[i].out = <<>> \/ ~CallsOf(r)[i].ok )
    => /\ CallsTo(r, "analyze_code_changes") = <<>>
       /\ CallsTo(r, "post_review_comment") = <<>>
       /\ Returned(r, FALSE)
       /\ response[r].body["status"] = "failed"

\* the fetch of the diff failed and the event was answered "failed" after
\* that single call
C4_Witness ==
  \E r \in Req :
    /\ ReviewedPullRequest(r)
    /\ Returned(r, FALSE)
    /\ OpsOf(r) = <<"get_pull_request_diff">>
    /\ ~CallsOf(r)[1].ok

\* C5: for an opened issue whose generation call succeeds with text R, the
\* policy posts exactly one issue comment, to the repository and the issue
\* number of the event, with a body containing R, and its result is the
\* boolean create_issue_comment returned.
C5_IssueCommentPosted ==
  \A r \in Req :
    ( /\ Handled(r)
      /\ OpenedIssue(r)
      /\ \E i \in DOMAIN CallsOf(r) :
           CallsOf(r)[i].op = "generate_content" /\ CallsOf(r)[i].ok )
    => LET posts == CallsTo(r, "create_issue_comment")
           generated == CallsTo(r, "generate_content")[1]
       IN  /\ Len(posts) = 1
           /\ posts[1].repo = event[r].data["repository"]["full_name"]
           /\ posts[1].number = event[r].data["issue"]["number"]
           /\ Contains(posts[1].text, generated.out)
           /\ Returned(r, posts[1].ok)

\* C6: an opened issue whose issue object has no body, or a null body, does
\* not fail for it: the prompt is built with the empty string as body and the
\* generation call is made.
C6_MissingBodyTolerated ==
  \A r \in Req :
    ( /\ Handled(r)
      /\ OpenedIssue(r)
      /\ HasRepository(r)
      /\ "issue" \in DOMAIN event[r].data
      /\ {"number", "title"} \subseteq DOMAIN event[r].data["issue"]
      /\ Get(event[r].data["issue"], "body", None) = None )
    => /\ caught[r] # "KeyError: 'body'"
       /\ \E i \in DOMAIN CallsOf(r) :
            /\ CallsOf(r)[i].op = "generate_content"
            /\ CallsOf(r)[i].text = IssuePrompt(event[r].data["issue"]["title"], "")

\* C7: an event whose repository field is the empty string because the
\* payload has no repository.full_name is tolerated by every handler: its
\* handling never fails on account of the absent repository.
C7_EmptyRepositoryTolerated ==
  \A r \in Req :
    (Handled(r) /\ ~HasRepository(r))
    => /\ event[r].repository = ""
       /\ outcome[r].exc \notin {"KeyError: 'repository'", "KeyError: 'full_name'"}
       /\ caught[r] \notin {"KeyError: 'repository'", "KeyError: 'full_name'"}

DocsGenerated(r) ==
  LET listings == CallsTo(r, "get_repository_files")
      docs == CallsTo(r, "generate_documentation")
      files == frame[r].files
      m == IF Len(files) < 5 THEN Len(files) ELSE 5
  IN  /\ Len(listings) = 1
      /\ listings[1].exts = SourceExtensions
      /\ listings[1].repo = event[r].repository
      /\ Len(docs) = m
      /\ \A i \in 1..m : /\ Contains(docs[i].text, files[i].path)
                         /\ Contains(docs[i].text, files[i].content)

C11_PushSucceeds ==
  \A r \in Req :
    (PushEvent(r) /\ Handled(r) /\ caught[r] = "") => Returned(r, TRUE)

\* the listing of the repository failed and the push still succeeded
C11_Witness ==
  \E r \in Req :
    /\ OnMain(r)
    /\ Returned(r, TRUE)
    /\ OpsOf(r) = <<"get_repository_files">>
    /\ ~CallsOf(r)[1].ok
    /\ response[r].body["status"] = "success"

C13_ReleaseResultFollowsGeneration ==
  \A r \in Req :
    (ReleaseEvent(r) /\ event[r].action = "published" /\ Handled(r))
    => /\ Len(CallsTo(r, "generate_content")) = 1
       /\ Returned(r, CallsTo(r, "generate_content")[1].ok)

\* C14: handling a push or a release never writes to the source host:
\* neither post_review_comment nor create_issue_comment is invoked,
\* whatever the generation calls return.
C14_NoWriteBack ==
  \A r \in Req :
    (PushEvent(r) \/ ReleaseEvent(r))
    => /\ CallsTo(r, "post_review_comment") = <<>>
       /\ CallsTo(r, "create_issue_comment") = <<>>

\* documentation was generated for a pushed repository and nothing was
\* written back
C14_Witness ==
  \E r \in Req :
    /\ OnMain(r)
    /\ Returned(r, TRUE)
    /\ \E i \in DOMAIN CallsOf(r) :
         /\ CallsOf(r)[i].op = "generate_documentation"
         /\ CallsOf(r)[i].ok
         /\ CallsOf(r)[i].out = <<"Looks fine.">>
    /\ \A i \in DOMAIN CallsOf(r) :
         CallsOf(r)[i].op \in {"get_repository_files", "generate_documentation"}

CarriesEvent(r) == Truthy(request[r].header) /\ request[r].payload # EmptyDict

\* the answer C17 asks for: 200, with the status following the result
StatusAnswer(r) ==
  /\ response[r].code = 200
  /\ outcome[r].kind = "return"
  /\ response[r].body["status"] = (IF outcome[r].value THEN "success" ELSE "failed")

NumberOf(r) ==
  Get(Get(event[r].data, "pull_request", Get(event[r].data, "issue", EmptyDict)),
      "number", 0)

\* call i of delivery r carries the fields extracted from the event of r and
\* the texts returned to r, and nothing else
OwnFieldsOnly(r, i) ==
  LET cs == CallsOf(r)
      c == cs[i]
  IN  /\ c.op \in {"get_pull_request_diff", "post_review_comment",
                   "create_issue_comment", "get_repository_files"}
         => c.repo = RepositoryOf(r) /\ c.repo = event[r].repository
      /\ c.op \in {"get_pull_request_diff", "post_review_comment", "create_issue_comment"}
         => c.number = NumberOf(r)
      /\ c.op = "analyze_code_changes"
         => /\ Contains(c.text, <<"PR #" \o Str(NumberOf(r))>>)
            /\ Contains(c.text, cs[i - 1].out)
            /\ Len(c.text) = Len(cs[i - 1].out) + 5
      /\ c.op = "post_review_comment"
         => /\ Contains(c.text, cs[i - 1].out)
            /\ Len(c.text) = Len(cs[i - 1].out) + 3
      /\ (c.op = "generate_content" /\ ReleaseEvent(r))
         => Contains(c.text, <<TagOf(r)>>)
      /\ (c.op = "generate_content" /\ OpenedIssue(r))
         => Contains(c.text, <<event[r].data["issue"]["title"]>>)

\* the result of delivery r as its own calls determine it: a pull request
\* succeeds iff its own review was posted, a push succeeds, and an issue or
\* a release fails because its awaited generation never completes
OwnResult(r) ==
  LET cs == CallsOf(r)
  IN  IF event[r].event_type = "pull_request"
      THEN cs # <<>> /\ cs[Len(cs)].op = "post_review_comment" /\ cs[Len(cs)].ok
      ELSE event[r].event_type = "push"

\* a step belongs to one delivery: it leaves the state of the other alone
\* and logs calls of that delivery only
DeliveryLocalStep ==
  \E r \in Req :
    /\ \A s \in Req \ {r} :
         /\ pc'[s] = pc[s]
         /\ event'[s] = event[s]
         /\ frame'[s] = frame[s]
         /\ caught'[s] = caught[s]
         /\ outcome'[s] = outcome[s]
         /\ response'[s] = response[s]
    /\ request' = request
    /\ Len(calls') >= Len(calls)
    /\ SubSeq(calls', 1, Len(calls)) = calls
    /\ \A i \in (Len(calls) + 1)..Len(calls') : calls'[i].req = r

\* C18: when two events for different repositories are handled at the same
\* time, under every interleaving each collaborator call made for an event
\* uses that event's own repository, number, tag and generated text, the
\* result of each event is the one its own collaborator outcomes determine,
\* and no step of one event touches the state of the other.
C18_NoCrossContamination ==
  /\ [](\A r \in Req :
          /\ \A i \in DOMAIN CallsOf(r) : OwnFieldsOnly(r, i)
          /\ Handled(r) => Returned(r, OwnResult(r)))
  /\ [][DeliveryLocalStep]_vars

\* two pull requests were reviewed with their calls interleaved; each review
\* went to its own pull request, the first was posted and the second was not
C18_Witness ==
  /\ \A r \in Req : ReviewedPullRequest(r) /\ Handled(r) /\ OpsOf(r) = ReviewOps
  /\ Len(calls) = 6
  /\ \A i \in 1..6 : calls[i].req = (IF i % 2 = 1 THEN 1 ELSE 2)
  /\ calls[5].repo = "acme/widgets" /\ calls[5].number = 41
  /\ calls[6].repo = "octo/tools" /\ calls[6].number = 42
  /\ calls[3].out # calls[4].out
  /\ Returned(1, TRUE)
  /\ Returned(2, FALSE)

====
